---- MODULE Spec2Model ----
(***************************************************************************)
(* State machine of the OXRS StateIO firmware (src/src/main.cpp): the      *)
(* device inventory g_mcps_found, the partition settings                   *)
(* g_mcp_output_start / g_mcp_output_pins, the addressing functions built  *)
(* on them, the config/command handlers and the event callbacks.           *)
(***************************************************************************)
EXTENDS Integers, Sequences, FiniteSets, TLC

VARIABLES
    g_mcps_found,        \* uint8_t bitmap, one bit per MCP found on the bus
    g_mcp_output_start,  \* first output slot (partition boundary)
    g_mcp_output_pins,   \* pins controlled on each output MCP
    pc,                  \* position of the program: boot, pump, slots, addr
    pendingEvents,       \* output events the output handlers still have to raise
    trace,               \* what the last handler did: a sequence of steps
    probe                \* result of the last addressing function applied

vars == <<g_mcps_found, g_mcp_output_start, g_mcp_output_pins, pc,
          pendingEvents, trace, probe>>

-----------------------------------------------------------------------------
(* Program constants *)

MCP_COUNT == 8
MCP_PIN_COUNT == 16
INVALID_INPUT_TYPE == "INVALID_INPUT_TYPE"
INVALID_OUTPUT_TYPE == "INVALID_OUTPUT_TYPE"
DEFAULT_TIMER_SECS == 60

Slots == 0 .. (MCP_COUNT - 1)
Pins == 0 .. (MCP_PIN_COUNT - 1)

(* The five layouts of g_mcp_output_start the firmware supports *)
PartitionValues == {0, 2, 4, 6, 8}

-----------------------------------------------------------------------------
(* Machine arithmetic *)

\* conversion of an int to uint8_t
U8(x) == x % 256

\* C integer division and remainder (truncation toward zero), b > 0
CDiv(a, b) == IF a >= 0 THEN a \div b ELSE -((-a) \div b)

CMod(a, b) == a - b * CDiv(a, b)

RECURSIVE Pow2(_)
Pow2(n) == IF n = 0 THEN 1 ELSE 2 * Pow2(n - 1)

\* Arduino bitRead / bitWrite on a uint8_t
bitRead(value, bit) == (value \div Pow2(bit)) % 2

bitWrite(value, bit, b) ==
    IF bitRead(value, bit) = b THEN value
    ELSE IF b = 1 THEN U8(value + Pow2(bit)) ELSE value - Pow2(bit)

-----------------------------------------------------------------------------
(* Addressing functions, as functions of the three globals they read *)

getMinInputIndex == 1

RECURSIVE MaxInputScan(_, _)
MaxInputScan(found, i) ==
    IF i < 0 THEN getMinInputIndex
    ELSE IF bitRead(found, i) = 1 THEN U8((i + 1) * MCP_PIN_COUNT)
    ELSE MaxInputScan(found, i - 1)

\* mutant: the scan starts at the first output slot instead of the last input slot
getMaxInputIndexFromBoundary(found, start) == MaxInputScan(found, start)

getMaxInputIndex(found, start) == MaxInputScan(found, start - 1)

getMinOutputIndex(start) == U8(start * MCP_PIN_COUNT + 1)

RECURSIVE MaxOutputScan(_, _, _, _)
MaxOutputScan(found, start, pins, i) ==
    IF i < start THEN getMinOutputIndex(start)
    ELSE IF bitRead(found, i) = 1
         THEN U8((i + 1 - start) * pins + getMinOutputIndex(start) - 1)
    ELSE MaxOutputScan(found, start, pins, i - 1)

\* mutant: every output MCP is counted with all 16 pins
getMaxOutputIndexAllPins(found, start, pins) ==
    MaxOutputScan(found, start, MCP_PIN_COUNT, 7)

getMaxOutputIndex(found, start, pins) == MaxOutputScan(found, start, pins, 7)

isInputMcp(mcp, start) == mcp < start

\* mutant: every slot counts as an output slot
isOutputMcpAlways(mcp, start) == TRUE

isOutputMcp(mcp, start) == ~isInputMcp(mcp, start)

\* mutant: every index resolves to the first output slot
outpIndex2McpBoundary(index, start, pins) == start

\* mutant: the partition offset is not added back
outpIndex2McpNoOffset(index, start, pins) ==
    U8(CDiv(index - getMinOutputIndex(start), pins))

outpIndex2Mcp(index, start, pins) ==
    U8(CDiv(index - getMinOutputIndex(start), pins) + start)

\* mutant: the pin is taken modulo the physical pin count
outpIndex2PinAllPins(index, start, pins) ==
    U8(CMod(index - getMinOutputIndex(start), MCP_PIN_COUNT))

outpIndex2Pin(index, start, pins) ==
    U8(CMod(index - getMinOutputIndex(start), pins))

\* jsonInputConfig: the MCP and pin of an input index
inpIndex2Mcp(index) == CDiv(index - 1, MCP_PIN_COUNT)

inpIndex2Pin(index) == CMod(index - 1, MCP_PIN_COUNT)

\* mutant: the index is left 0-based
inputEventIndexZeroBased(mcp, input) == U8(MCP_PIN_COUNT * mcp + input)

\* inputEvent: the 1-based index of (mcp, input)
inputEventIndex(mcp, input) == U8(MCP_PIN_COUNT * mcp + input + 1)

\* outputEvent: the 1-based index of (mcp, pin)
outputEventIndex(mcp, pin, start, pins) ==
    LET raw_index == U8((mcp - start) * pins + getMinOutputIndex(start) - 1 + pin)
    IN  U8(raw_index + 1)

-----------------------------------------------------------------------------
(* JSON values of a message: a key is absent, null, an integer, a string   *)
(* or a boolean.  An entry of a message is a record of such values.        *)

Absent == [k |-> "absent", i |-> 0, s |-> ""]

JNull == [k |-> "null", i |-> 0, s |-> ""]

JInt(n) == [k |-> "int", i |-> n, s |-> ""]

JStr(str) == [k |-> "str", i |-> 0, s |-> str]

JBool(b) == [k |-> "bool", i |-> IF b THEN 1 ELSE 0, s |-> ""]

\* JsonVariant::containsKey
containsKey(v) == v.k # "absent"

\* JsonVariant::isNull
\* mutant: no value is taken as null
isNullNever(v) == FALSE

isNull(v) == v.k \in {"absent", "null"}

\* JsonVariant::as<uint8_t>(): 0 when the value is no integer of the type
asUint8(v) == IF v.k = "int" /\ v.i \in 0 .. 255 THEN v.i ELSE 0

\* JsonVariant::as<int>()
asInt(v) == IF v.k = "int" THEN v.i ELSE 0

\* JsonVariant::as<bool>()
asBool(v) == v.k = "bool" /\ v.i = 1

-----------------------------------------------------------------------------
(* Index validation *)

getInputIndex(json, found, start) ==
    IF ~containsKey(json.index) THEN 0
    ELSE LET index == asUint8(json.index)
         IN  IF index < getMinInputIndex \/ index > getMaxInputIndex(found, start)
             THEN 0
             ELSE index

\* mutant: an index above the range is clamped to the maximum
getOutputIndexClamped(json, found, start, pins) ==
    IF ~containsKey(json.index) THEN 0
    ELSE LET index == asUint8(json.index)
         IN  IF index < getMinOutputIndex(start) THEN 0
             ELSE IF index > getMaxOutputIndex(found, start, pins)
                  THEN getMaxOutputIndex(found, start, pins)
             ELSE index

getOutputIndex(json, found, start, pins) ==
    IF ~containsKey(json.index) THEN 0
    ELSE LET index == asUint8(json.index)
         IN  IF index < getMinOutputIndex(start)
                \/ index > getMaxOutputIndex(found, start, pins)
             THEN 0
             ELSE index

-----------------------------------------------------------------------------
(* Calls into the collaborators (transport, chip driver, input and output  *)
(* handlers, serial log) are recorded as effects; a step of the trace is   *)
(* one key or one array entry of a message, or one slot of a loop pass.    *)

Fx(op, mcp, pin, n, s, e) ==
    [op |-> op, mcp |-> mcp, pin |-> pin, n |-> n, s |-> s, e |-> e]

Println(msg) == Fx("oxrs.println", 0, 0, 0, msg, "")

Step(what, key, fx) == [what |-> what, key |-> key, fx |-> fx]

\* every effect of a trace, in order
RECURSIVE AllFx(_)
AllFx(tr) == IF tr = <<>> THEN <<>> ELSE Head(tr).fx \o AllFx(Tail(tr))

Range(seq) == {seq[k] : k \in DOMAIN seq}

-----------------------------------------------------------------------------
(* Type and event names *)

\* mutant: a string that names no input type is taken as switch
parseInputTypeLenient(inputType) ==
    CASE inputType = "button" -> "BUTTON"
      [] inputType = "contact" -> "CONTACT"
      [] inputType = "press" -> "PRESS"
      [] inputType = "rotary" -> "ROTARY"
      [] inputType = "security" -> "SECURITY"
      [] inputType = "toggle" -> "TOGGLE"
      [] OTHER -> "SWITCH"

parseInputType(inputType) ==
    CASE inputType = "button" -> "BUTTON"
      [] inputType = "contact" -> "CONTACT"
      [] inputType = "press" -> "PRESS"
      [] inputType = "rotary" -> "ROTARY"
      [] inputType = "security" -> "SECURITY"
      [] inputType = "switch" -> "SWITCH"
      [] inputType = "toggle" -> "TOGGLE"
      [] OTHER -> INVALID_INPUT_TYPE

parseInputTypeLog(inputType) ==
    IF parseInputType(inputType) = INVALID_INPUT_TYPE
    THEN <<Println("[stio] invalid input type")>>
    ELSE <<>>

getInputType(type) ==
    CASE type = "BUTTON" -> "button"
      [] type = "CONTACT" -> "contact"
      [] type = "PRESS" -> "press"
      [] type = "ROTARY" -> "rotary"
      [] type = "SECURITY" -> "security"
      [] type = "SWITCH" -> "switch"
      [] type = "TOGGLE" -> "toggle"
      [] OTHER -> "error"

getInputEventType(type, state) ==
    CASE type = "BUTTON" /\ state = "HOLD_EVENT" -> "hold"
      [] type = "BUTTON" /\ state = "1" -> "single"
      [] type = "BUTTON" /\ state = "2" -> "double"
      [] type = "BUTTON" /\ state = "3" -> "triple"
      [] type = "BUTTON" /\ state = "4" -> "quad"
      [] type = "BUTTON" /\ state = "5" -> "penta"
      [] type = "CONTACT" /\ state = "LOW_EVENT" -> "closed"
      [] type = "CONTACT" /\ state = "HIGH_EVENT" -> "open"
      [] type = "PRESS" -> "press"
      [] type = "ROTARY" /\ state = "LOW_EVENT" -> "up"
      [] type = "ROTARY" /\ state = "HIGH_EVENT" -> "down"
      [] type = "SECURITY" /\ state = "HIGH_EVENT" -> "normal"
      [] type = "SECURITY" /\ state = "LOW_EVENT" -> "alarm"
      [] type = "SECURITY" /\ state = "TAMPER_EVENT" -> "tamper"
      [] type = "SECURITY" /\ state = "SHORT_EVENT" -> "short"
      [] type = "SECURITY" /\ state = "FAULT_EVENT" -> "fault"
      [] type = "SWITCH" /\ state = "LOW_EVENT" -> "on"
      [] type = "SWITCH" /\ state = "HIGH_EVENT" -> "off"
      [] type = "TOGGLE" -> "toggle"
      [] OTHER -> "error"

\* mutant: a string that names no output type is taken as relay
parseOutputTypeLenient(outputType) ==
    CASE outputType = "motor" -> "MOTOR"
      [] outputType = "timer" -> "TIMER"
      [] OTHER -> "RELAY"

parseOutputType(outputType) ==
    CASE outputType = "relay" -> "RELAY"
      [] outputType = "motor" -> "MOTOR"
      [] outputType = "timer" -> "TIMER"
      [] OTHER -> INVALID_OUTPUT_TYPE

parseOutputTypeLog(outputType) ==
    IF parseOutputType(outputType) = INVALID_OUTPUT_TYPE
    THEN <<Println("[stio] invalid output type")>>
    ELSE <<>>

getOutputType(type) ==
    CASE type = "MOTOR" -> "motor"
      [] type = "RELAY" -> "relay"
      [] type = "TIMER" -> "timer"
      [] OTHER -> "error"

\* mutant: the two states are named the wrong way round
getOutputEventTypeInverted(type, state) ==
    CASE state = "RELAY_ON" -> "off"
      [] state = "RELAY_OFF" -> "on"
      [] OTHER -> "error"

getOutputEventType(type, state) ==
    CASE state = "RELAY_ON" -> "on"
      [] state = "RELAY_OFF" -> "off"
      [] OTHER -> "error"

-----------------------------------------------------------------------------
(* Event publisher and event callbacks.  ok: whether oxrs.publishStatus    *)
(* reports the record as delivered.                                        *)

\* mutant: a record the transport refuses is dropped
publishOutputEventDropping(index, type, state, ok) ==
    <<Fx("oxrs.publishStatus", 0, 0, index, getOutputType(type),
         getOutputEventType(type, state))>>

publishOutputEvent(index, type, state, ok) ==
    <<Fx("oxrs.publishStatus", 0, 0, index, getOutputType(type),
         getOutputEventType(type, state))>>
    \o (IF ok THEN <<>>
        ELSE <<Fx("Serial.failover", 0, 0, index, getOutputType(type),
                  getOutputEventType(type, state))>>)

publishInputEvent(index, type, state, ok) ==
    LET port == U8(CDiv(index - 1, 4) + 1)
        channel == U8(index - (port - 1) * 4)
    IN  <<Fx("oxrs.publishStatus", port, channel, index, getInputType(type),
             getInputEventType(type, state))>>
        \o (IF ok THEN <<>>
            ELSE <<Fx("Serial.failover", port, channel, index, getInputType(type),
                      getInputEventType(type, state))>>)

inputEvent(id, input, type, state, ok) ==
    <<Fx("inputEvent", id, input, 0, type, state)>>
    \o publishInputEvent(inputEventIndex(id, input), type, state, ok)

\* mutant: the record is published before the pin is written
outputEventPublishFirst(id, output, type, state, start, pins, ok) ==
    <<Fx("outputEvent", id, output, 0, type, state)>>
    \o publishOutputEvent(outputEventIndex(id, output, start, pins), type, state, ok)
    \o <<Fx("mcp23017.digitalWrite", id, output, 0, "", state)>>

outputEvent(id, output, type, state, start, pins, ok) ==
    <<Fx("outputEvent", id, output, 0, type, state),
      Fx("mcp23017.digitalWrite", id, output, 0, "", state)>>
    \o publishOutputEvent(outputEventIndex(id, output, start, pins), type, state, ok)

-----------------------------------------------------------------------------
(* Per-pin setters (the display calls of the Rack32 build are left out)    *)

setInputType(mcp, pin, inputType) ==
    <<Fx("oxrsInput.setType", mcp, pin, 0, inputType, "")>>

setInputInvert(mcp, pin, invert) ==
    <<Fx("oxrsInput.setInvert", mcp, pin, IF invert THEN 1 ELSE 0, "", "")>>

setInputDisabled(mcp, pin, disabled) ==
    <<Fx("oxrsInput.setDisabled", mcp, pin, IF disabled THEN 1 ELSE 0, "", "")>>

RECURSIVE Flatten(_)
Flatten(seqs) == IF seqs = <<>> THEN <<>> ELSE Head(seqs) \o Flatten(Tail(seqs))

\* the slots whose bit is set in the bitmap, in ascending order
FoundSlots(found) ==
    SelectSeq([k \in 1 .. MCP_COUNT |-> k - 1], LAMBDA m : bitRead(found, m) = 1)

setDefaultInputType(inputType, found) ==
    LET slots == FoundSlots(found)
    IN  Flatten([k \in 1 .. Len(slots) |->
            Flatten([q \in 1 .. MCP_PIN_COUNT |->
                setInputType(slots[k], q - 1, inputType)])])

setDefaultOutputType(outputType, found, pins) ==
    LET slots == FoundSlots(found)
    IN  Flatten([k \in 1 .. Len(slots) |->
            [q \in 1 .. pins |->
                Fx("oxrsOutput.setType", slots[k], q - 1, 0, outputType, "")]])

-----------------------------------------------------------------------------
(* Config handler *)

\* mutant: a string outside the table resets the boundary to its default
jsonIoConfigResetting(ioConfig, start) ==
    CASE ioConfig = "io_128_0" -> 8
      [] ioConfig = "io_96_32" -> 6
      [] ioConfig = "io_64_64" -> 4
      [] ioConfig = "io_32_96" -> 2
      [] ioConfig = "io_0_128" -> 0
      [] OTHER -> MCP_COUNT

\* jsonIoConfig: the new value of g_mcp_output_start
jsonIoConfig(ioConfig, start) ==
    CASE ioConfig = "io_128_0" -> 8
      [] ioConfig = "io_96_32" -> 6
      [] ioConfig = "io_64_64" -> 4
      [] ioConfig = "io_32_96" -> 2
      [] ioConfig = "io_0_128" -> 0
      [] OTHER -> start

jsonIoConfigLog(ioConfig) ==
    IF ioConfig \in {"io_128_0", "io_96_32", "io_64_64", "io_32_96", "io_0_128"}
    THEN <<>>
    ELSE <<Println("[stio] invalid ioConfig enum")>>

getInputIndexLog(json) ==
    IF ~containsKey(json.index)
    THEN <<Println("[stio] missing input index")>>
    ELSE <<Println("[stio] invalid input index")>>

getOutputIndexLog(json) ==
    IF ~containsKey(json.index)
    THEN <<Println("[stio] missing output index")>>
    ELSE <<Println("[stio] invalid output index")>>

\* the effects of one entry of the "inputs" array
jsonInputConfig(json, found, start) ==
    LET index == getInputIndex(json, found, start)
        mcp == inpIndex2Mcp(index)
        pin == inpIndex2Pin(index)
        inputType == parseInputType(json.type.s)
    IN  IF index = 0 THEN getInputIndexLog(json)
        ELSE (IF containsKey(json.type)
              THEN parseInputTypeLog(json.type.s)
                   \o (IF inputType # INVALID_INPUT_TYPE
                       THEN setInputType(mcp, pin, inputType) ELSE <<>>)
              ELSE <<>>)
             \o (IF containsKey(json.invert)
                 THEN setInputInvert(mcp, pin, asBool(json.invert)) ELSE <<>>)
             \o (IF containsKey(json.disabled)
                 THEN setInputDisabled(mcp, pin, asBool(json.disabled)) ELSE <<>>)

\* the effects of one entry of the "outputs" array of a config message
jsonOutputConfig(json, found, start, pins) ==
    LET index == getOutputIndex(json, found, start, pins)
        mcp == outpIndex2Mcp(index, start, pins)
        pin == outpIndex2Pin(index, start, pins)
        outputType == parseOutputType(json.type.s)
        interlock_index == asUint8(json.interlockIndex)
        interlock_mcp == outpIndex2Mcp(interlock_index, start, pins)
        interlock_pin == outpIndex2Pin(interlock_index, start, pins)
    IN  IF index = 0 THEN getOutputIndexLog(json)
        ELSE (IF containsKey(json.type)
              THEN parseOutputTypeLog(json.type.s)
                   \o (IF outputType # INVALID_OUTPUT_TYPE
                       THEN <<Fx("oxrsOutput.setType", mcp, pin, 0, outputType, "")>>
                       ELSE <<>>)
              ELSE <<>>)
             \o (IF containsKey(json.timerSeconds)
                 THEN IF isNull(json.timerSeconds)
                      THEN <<Fx("oxrsOutput.setTimer", mcp, pin,
                                DEFAULT_TIMER_SECS, "", "")>>
                      ELSE <<Fx("oxrsOutput.setTimer", mcp, pin,
                                asInt(json.timerSeconds), "", "")>>
                 ELSE <<>>)
             \o (IF containsKey(json.interlockIndex)
                 THEN IF isNull(json.interlockIndex)
                      THEN <<Fx("oxrsOutput.setInterlock", mcp, pin, pin, "", "")>>
                      ELSE IF interlock_mcp = mcp
                           THEN <<Fx("oxrsOutput.setInterlock", mcp, pin,
                                     interlock_pin, "", "")>>
                           ELSE <<Println("[stio] lock must be with pin on same mcp")>>
                 ELSE <<>>)

\* mutant: the arrays are handled before the default types
jsonConfigArraysFirst(json, found, start, pins) ==
    LET start1 == IF containsKey(json.ioConfig)
                  THEN jsonIoConfig(json.ioConfig.s, start) ELSE start
        pins1 == IF containsKey(json.outputsPerMcp)
                 THEN asUint8(json.outputsPerMcp) ELSE pins
        inputType == parseInputType(json.defaultInputType.s)
        outputType == parseOutputType(json.defaultOutputType.s)
    IN  [start |-> start1,
         pins |-> pins1,
         tr |->
            (IF containsKey(json.ioConfig)
             THEN <<Step("ioConfig", json.ioConfig, jsonIoConfigLog(json.ioConfig.s))>>
             ELSE <<>>)
            \o (IF containsKey(json.outputsPerMcp)
                THEN <<Step("outputsPerMcp", json.outputsPerMcp, <<>>)>>
                ELSE <<>>)
            \o [k \in 1 .. Len(json.inputs) |->
                   Step("inputs", json.inputs[k].index,
                        jsonInputConfig(json.inputs[k], found, start1))]
            \o (IF containsKey(json.defaultInputType)
                THEN <<Step("defaultInputType", json.defaultInputType,
                            parseInputTypeLog(json.defaultInputType.s)
                            \o (IF inputType # INVALID_INPUT_TYPE
                                THEN setDefaultInputType(inputType, found)
                                ELSE <<>>))>>
                ELSE <<>>)
            \o [k \in 1 .. Len(json.outputs) |->
                   Step("outputs", json.outputs[k].index,
                        jsonOutputConfig(json.outputs[k], found, start1, pins1))]
            \o (IF containsKey(json.defaultOutputType)
                THEN <<Step("defaultOutputType", json.defaultOutputType,
                            parseOutputTypeLog(json.defaultOutputType.s)
                            \o (IF outputType # INVALID_OUTPUT_TYPE
                                THEN setDefaultOutputType(outputType, found, pins1)
                                ELSE <<>>))>>
                ELSE <<>>)]

\* jsonConfig: the new globals and the steps of one config message
jsonConfig(json, found, start, pins) ==
    LET start1 == IF containsKey(json.ioConfig)
                  THEN jsonIoConfig(json.ioConfig.s, start) ELSE start
        pins1 == IF containsKey(json.outputsPerMcp)
                 THEN asUint8(json.outputsPerMcp) ELSE pins
        inputType == parseInputType(json.defaultInputType.s)
        outputType == parseOutputType(json.defaultOutputType.s)
    IN  [start |-> start1,
         pins |-> pins1,
         tr |->
            (IF containsKey(json.ioConfig)
             THEN <<Step("ioConfig", json.ioConfig, jsonIoConfigLog(json.ioConfig.s))>>
             ELSE <<>>)
            \o (IF containsKey(json.outputsPerMcp)
                THEN <<Step("outputsPerMcp", json.outputsPerMcp, <<>>)>>
                ELSE <<>>)
            \o (IF containsKey(json.defaultInputType)
                THEN <<Step("defaultInputType", json.defaultInputType,
                            parseInputTypeLog(json.defaultInputType.s)
                            \o (IF inputType # INVALID_INPUT_TYPE
                                THEN setDefaultInputType(inputType, found)
                                ELSE <<>>))>>
                ELSE <<>>)
            \o [k \in 1 .. Len(json.inputs) |->
                   Step("inputs", json.inputs[k].index,
                        jsonInputConfig(json.inputs[k], found, start1))]
            \o (IF containsKey(json.defaultOutputType)
                THEN <<Step("defaultOutputType", json.defaultOutputType,
                            parseOutputTypeLog(json.defaultOutputType.s)
                            \o (IF outputType # INVALID_OUTPUT_TYPE
                                THEN setDefaultOutputType(outputType, found, pins1)
                                ELSE <<>>))>>
                ELSE <<>>)
            \o [k \in 1 .. Len(json.outputs) |->
                   Step("outputs", json.outputs[k].index,
                        jsonOutputConfig(json.outputs[k], found, start1, pins1))]]

-----------------------------------------------------------------------------
(* Command handler.  env is what the collaborators answer during one       *)
(* message: type (oxrsOutput getType), level (mcp23017 digitalRead), mode   *)
(* (whether handleCommand raises its event at once, later from process(),  *)
(* or not at all) and ok (oxrs.publishStatus).                             *)

MaxPending == 1

\* OXRS_Output::handleCommand as the firmware sees it: the event for
\* (id, output) reaches the registered callback outputEvent now or from a
\* later process() of the same handler
handleCommand(id, output, type, command, start, pins, env, pend) ==
    [fx |-> <<Fx("oxrsOutput.handleCommand", id, output, 0, "", command)>>
            \o (IF env.mode = "now"
                THEN outputEvent(id, output, type, command, start, pins, env.ok)
                ELSE <<>>),
     pend |-> IF env.mode = "later"
              THEN pend \cup {[mcp |-> id, pin |-> output, type |-> type,
                               state |-> command]}
              ELSE pend]

\* the effects of one entry of the "outputs" array of a command message
jsonOutputCommand(json, found, start, pins, env, pend) ==
    LET index == getOutputIndex(json, found, start, pins)
        mcp == outpIndex2Mcp(index, start, pins)
        pin == outpIndex2Pin(index, start, pins)
        type == env.type
        getType == <<Fx("oxrsOutput.getType", mcp, pin, 0, type, "")>>
    IN  IF index = 0 THEN [fx |-> getOutputIndexLog(json), pend |-> pend]
        ELSE IF containsKey(json.type) /\ parseOutputType(json.type.s) # type
        THEN [fx |-> getType \o parseOutputTypeLog(json.type.s)
                     \o <<Println("[stio] command type doesn't match configured type")>>,
              pend |-> pend]
        ELSE IF ~containsKey(json.command)
        THEN [fx |-> getType
                     \o (IF containsKey(json.type)
                         THEN parseOutputTypeLog(json.type.s) ELSE <<>>),
              pend |-> pend]
        ELSE IF isNull(json.command) \/ json.command.s = "query"
        THEN [fx |-> getType
                     \o <<Fx("mcp23017.digitalRead", mcp, pin, 0, "", env.level)>>
                     \o publishOutputEvent(index, type, env.level, env.ok),
              pend |-> pend]
        ELSE IF json.command.s \in {"on", "off"}
        THEN LET command == IF json.command.s = "on" THEN "RELAY_ON" ELSE "RELAY_OFF"
                 h == handleCommand(mcp, pin, type, command, start, pins, env, pend)
             IN  [fx |-> getType \o h.fx, pend |-> h.pend]
        ELSE [fx |-> getType \o <<Println("[stio] invalid command")>>, pend |-> pend]

\* mutant: the first entry whose index is refused ends the message
RECURSIVE jsonCommandFromStopping(_, _, _, _, _, _, _)
jsonCommandFromStopping(k, json, found, start, pins, env, pend) ==
    IF k > Len(json.outputs) THEN [tr |-> <<>>, pend |-> pend]
    ELSE LET r == jsonOutputCommand(json.outputs[k], found, start, pins, env, pend)
             rest == IF getOutputIndex(json.outputs[k], found, start, pins) = 0
                     THEN [tr |-> <<>>, pend |-> r.pend]
                     ELSE jsonCommandFromStopping(k + 1, json, found, start, pins,
                                                  env, r.pend)
         IN  [tr |-> <<Step("outputs", json.outputs[k].index, r.fx)>> \o rest.tr,
              pend |-> rest.pend]

\* jsonCommand from entry k on: the steps and the pending events
RECURSIVE jsonCommandFrom(_, _, _, _, _, _, _)
jsonCommandFrom(k, json, found, start, pins, env, pend) ==
    IF k > Len(json.outputs) THEN [tr |-> <<>>, pend |-> pend]
    ELSE LET r == jsonOutputCommand(json.outputs[k], found, start, pins, env, pend)
             rest == jsonCommandFrom(k + 1, json, found, start, pins, env, r.pend)
         IN  [tr |-> <<Step("outputs", json.outputs[k].index, r.fx)>> \o rest.tr,
              pend |-> rest.pend]

jsonCommand(json, found, start, pins, env, pend) ==
    jsonCommandFrom(1, json, found, start, pins, env, pend)

-----------------------------------------------------------------------------
(* Main loop: the slots of one pass.  ev is the input event the input      *)
(* handlers classify in this pass (mcp = MCP_COUNT: none).                 *)

RECURSIVE SetToSeq(_)
SetToSeq(S) ==
    IF S = {} THEN <<>>
    ELSE LET x == CHOOSE y \in S : \A z \in S : y.pin <= z.pin
         IN  <<x>> \o SetToSeq(S \ {x})

\* OXRS_Output::process of slot mcp: the due events reach outputEvent
outputProcess(mcp, start, pins, pend, ok) ==
    LET due == SetToSeq({p \in pend : p.mcp = mcp})
    IN  <<Fx("oxrsOutput.process", mcp, 0, 0, "", "")>>
        \o Flatten([k \in 1 .. Len(due) |->
               outputEvent(due[k].mcp, due[k].pin, due[k].type, due[k].state,
                           start, pins, ok)])

\* OXRS_Input::process of slot mcp: a classified transition reaches inputEvent
inputProcess(mcp, ev, ok) ==
    <<Fx("oxrsInput.process", mcp, 0, 0, "", "")>>
    \o (IF ev.mcp = mcp THEN inputEvent(mcp, ev.pin, ev.type, ev.state, ok)
        ELSE <<>>)

RECURSIVE loopFrom(_, _, _, _, _, _, _)
loopFrom(mcp, found, start, pins, pend, ev, ok) ==
    IF mcp >= MCP_COUNT THEN <<>>
    ELSE (IF bitRead(found, mcp) = 0 THEN <<>>
          ELSE <<Step("slot", JInt(mcp),
                   (IF isOutputMcp(mcp, start)
                    THEN outputProcess(mcp, start, pins, pend, ok) ELSE <<>>)
                   \o <<Fx("mcp23017.readGPIOAB", mcp, 0, 0, "", "")>>
                   \o (IF isInputMcp(mcp, start)
                       THEN inputProcess(mcp, ev, ok) ELSE <<>>))>>)
         \o loopFrom(mcp + 1, found, start, pins, pend, ev, ok)

\* the pending events no process() of this pass has raised
loopPending(found, start, pend) ==
    {p \in pend : ~(p.mcp \in Slots /\ bitRead(found, p.mcp) = 1
                    /\ isOutputMcp(p.mcp, start))}

-----------------------------------------------------------------------------
(* Setup *)

\* scanI2CBus: acks are the addresses that acknowledge the probe
RECURSIVE scanI2CBus(_, _, _)
scanI2CBus(mcp, found, acks) ==
    IF mcp >= MCP_COUNT THEN found
    ELSE scanI2CBus(mcp + 1,
                    IF mcp \in acks THEN bitWrite(found, mcp, 1) ELSE found,
                    acks)

scanI2CBusFx ==
    Flatten([k \in 1 .. MCP_COUNT |->
        <<Fx("oxrsInput.begin", k - 1, 0, 0, "SWITCH", ""),
          Fx("oxrsOutput.begin", k - 1, 0, 0, "RELAY", "")>>])

configureI2CBus(found, start) ==
    LET slots == FoundSlots(found)
    IN  Flatten([k \in 1 .. Len(slots) |->
            <<Fx("mcp23017.begin_I2C", slots[k], 0, 0, "", "")>>
            \o (IF isInputMcp(slots[k], start)
                THEN [q \in 1 .. MCP_PIN_COUNT |->
                         Fx("mcp23017.pinMode", slots[k], q - 1, 0, "INPUT_PULLUP", "")]
                ELSE Flatten([q \in 1 .. MCP_PIN_COUNT |->
                         <<Fx("mcp23017.pinMode", slots[k], q - 1, 0, "OUTPUT", ""),
                           Fx("mcp23017.digitalWrite", slots[k], q - 1, 0, "",
                              "RELAY_OFF")>>]))])

inputConfigSchema(found, start) ==
    <<Fx("schema.defaultInputType", 0, 0, 0, "", ""),
      Fx("schema.inputs", 0, 0, 0, "", ""),
      Fx("schema.inputs.index.minimum", 0, 0, getMinInputIndex, "", ""),
      Fx("schema.inputs.index.maximum", 0, 0, getMaxInputIndex(found, start), "", "")>>

outputConfigSchema(found, start, pins) ==
    <<Fx("schema.defaultOutputType", 0, 0, 0, "", ""),
      Fx("schema.outputs", 0, 0, 0, "", ""),
      Fx("schema.outputs.index.minimum", 0, 0, getMinOutputIndex(start), "", ""),
      Fx("schema.outputs.index.maximum", 0, 0,
         getMaxOutputIndex(found, start, pins), "", ""),
      Fx("schema.outputs.interlockIndex.minimum", 0, 0,
         getMinOutputIndex(start), "", ""),
      Fx("schema.outputs.interlockIndex.maximum", 0, 0,
         getMaxOutputIndex(found, start, pins), "", "")>>

\* mutant: the output section is left out only when no slot is an input slot
setConfigSchemaEitherSection(found, start, pins) ==
    <<Fx("schema.ioConfig", 0, 0, 0, "", ""),
      Fx("schema.outputsPerMcp", 0, 0, 0, "", "")>>
    \o (IF isInputMcp(0, start) THEN inputConfigSchema(found, start) ELSE <<>>)
    \o (IF ~isInputMcp(0, start)
        THEN outputConfigSchema(found, start, pins) ELSE <<>>)
    \o <<Fx("oxrs.setConfigSchema", 0, 0, 0, "", "")>>

setConfigSchema(found, start, pins) ==
    <<Fx("schema.ioConfig", 0, 0, 0, "", ""),
      Fx("schema.outputsPerMcp", 0, 0, 0, "", "")>>
    \o (IF isInputMcp(0, start) THEN inputConfigSchema(found, start) ELSE <<>>)
    \o (IF isOutputMcp(MCP_COUNT - 1, start)
        THEN outputConfigSchema(found, start, pins) ELSE <<>>)
    \o <<Fx("oxrs.setConfigSchema", 0, 0, 0, "", "")>>

outputCommandSchema(found, start, pins) ==
    <<Fx("schema.command.outputs", 0, 0, 0, "", ""),
      Fx("schema.command.index.minimum", 0, 0, getMinOutputIndex(start), "", ""),
      Fx("schema.command.index.maximum", 0, 0,
         getMaxOutputIndex(found, start, pins), "", "")>>

setCommandSchema(found, start, pins) ==
    (IF isOutputMcp(MCP_COUNT - 1, start)
     THEN outputCommandSchema(found, start, pins) ELSE <<>>)
    \o <<Fx("oxrs.setCommandSchema", 0, 0, 0, "", "")>>

-----------------------------------------------------------------------------
(* Inputs of the model *)

MaxEntries == 1

\* the sets of addresses that answer the bus scan
PresenceValues == {{}, 0 .. 7, {4, 6}, {0, 2}}

IoConfigValues ==
    {Absent} \cup {JStr(str) : str \in {"io_128_0", "io_96_32", "io_64_64",
                                         "io_32_96", "io_0_128", "io_16_16"}}

OutputsPerMcpValues == {Absent, JInt(8), JInt(16), JInt(32)}

IndexValues ==
    {Absent} \cup {JInt(n) : n \in {0, 1, 17, 65, 81, 129, 130}}

CommandValues ==
    {Absent, JNull, JStr("query"), JStr("on"), JStr("off"), JStr("toggle")}

InputEntries ==
    {[index |-> ix, type |-> JStr("button"), invert |-> JBool(TRUE),
      disabled |-> Absent] : ix \in IndexValues}

OutputEntries ==
    {[index |-> ix, type |-> JStr("timer"), timerSeconds |-> JInt(30),
      interlockIndex |-> Absent] : ix \in IndexValues}

CommandEntries ==
    {[index |-> ix, type |-> Absent, command |-> c] :
        ix \in IndexValues, c \in CommandValues}

SeqsUpTo(S, n) == UNION {[1 .. k -> S] : k \in 0 .. n}

EmptyConfig ==
    [ioConfig |-> Absent, outputsPerMcp |-> Absent, defaultInputType |-> Absent,
     inputs |-> <<>>, defaultOutputType |-> Absent, outputs |-> <<>>]

\* a config message changes the partition settings or carries array entries
ConfigMessages ==
    {[EmptyConfig EXCEPT !.ioConfig = io, !.outputsPerMcp = n] :
        io \in IoConfigValues, n \in OutputsPerMcpValues}
    \cup {[EmptyConfig EXCEPT !.inputs = es] : es \in SeqsUpTo(InputEntries, MaxEntries)}
    \cup {[EmptyConfig EXCEPT !.outputs = es] : es \in SeqsUpTo(OutputEntries, MaxEntries)}

CommandMessages ==
    {[outputs |-> es] : es \in SeqsUpTo(CommandEntries, MaxEntries) \ {<<>>}}

OutputTypeValues == {"RELAY"}

\* what the collaborators can answer during a command message; an answer
\* that no entry of the message asks for is fixed
CommandEnvs(json, found, start, pins) ==
    LET accepted == {k \in 1 .. Len(json.outputs) :
                        getOutputIndex(json.outputs[k], found, start, pins) # 0}
        reads == \E k \in accepted :
                    /\ containsKey(json.outputs[k].command)
                    /\ (isNull(json.outputs[k].command)
                        \/ json.outputs[k].command.s = "query")
        cmds == \E k \in accepted : json.outputs[k].command.s \in {"on", "off"}
    IN  {e \in [type : OutputTypeValues, level : {"RELAY_ON", "RELAY_OFF"},
                mode : {"now", "later", "none"}, ok : BOOLEAN] :
            /\ (accepted = {} => e.type = "RELAY")
            /\ (~reads => e.level = "RELAY_OFF")
            /\ (~cmds => e.mode = "none")
            /\ (~(reads \/ (cmds /\ e.mode = "now")) => e.ok)}

NoEvent == [mcp |-> MCP_COUNT, pin |-> 0, type |-> "SWITCH", state |-> "LOW_EVENT"]

\* the transitions the input handlers can classify in one pass
InputEvents(found, start) ==
    {NoEvent}
    \cup {[mcp |-> m, pin |-> p, type |-> "SWITCH", state |-> "LOW_EVENT"] :
            m \in {x \in Slots : bitRead(found, x) = 1 /\ isInputMcp(x, start)},
            p \in {MCP_PIN_COUNT - 1}}

NoProbe == [fn |-> "none", a |-> 0, b |-> 0, res |-> <<>>]

-----------------------------------------------------------------------------
(* The firmware: setup(), then loop() for ever; a reset starts it again.   *)

Init ==
    /\ g_mcps_found = 0
    /\ g_mcp_output_start = MCP_COUNT
    /\ g_mcp_output_pins = MCP_PIN_COUNT
    /\ pc = "boot"
    /\ pendingEvents = {}
    /\ trace = <<>>
    /\ probe = NoProbe

\* setup(): bus scan, oxrs.begin (which delivers the persisted config to
\* jsonConfig), pin directions, schemas
Setup(acks, json) ==
    /\ pc = "boot"
    /\ LET found == scanI2CBus(0, g_mcps_found, acks)
           c == jsonConfig(json, found, g_mcp_output_start, g_mcp_output_pins)
       IN  /\ g_mcps_found' = found
           /\ g_mcp_output_start' = c.start
           /\ g_mcp_output_pins' = c.pins
           /\ trace' = <<Step("scanI2CBus", JInt(found), scanI2CBusFx)>>
                       \o c.tr
                       \o <<Step("configureI2CBus", Absent,
                                 configureI2CBus(found, c.start)),
                            Step("setConfigSchema", Absent,
                                 setConfigSchema(found, c.start, c.pins)),
                            Step("setCommandSchema", Absent,
                                 setCommandSchema(found, c.start, c.pins))>>
    /\ pc' = "pump"
    /\ UNCHANGED <<pendingEvents, probe>>

\* loop(): oxrs.loop() hands a config message to jsonConfig
PumpConfig(json) ==
    /\ pc = "pump"
    /\ LET c == jsonConfig(json, g_mcps_found, g_mcp_output_start, g_mcp_output_pins)
       IN  /\ g_mcp_output_start' = c.start
           /\ g_mcp_output_pins' = c.pins
           /\ trace' = c.tr
    /\ pc' = "slots"
    /\ UNCHANGED <<g_mcps_found, pendingEvents, probe>>

\* loop(): oxrs.loop() hands a command message to jsonCommand
PumpCommand(json, env) ==
    /\ pc = "pump"
    /\ LET c == jsonCommand(json, g_mcps_found, g_mcp_output_start,
                            g_mcp_output_pins, env, pendingEvents)
       IN  /\ Cardinality(c.pend) <= MaxPending
           /\ pendingEvents' = c.pend
           /\ trace' = c.tr
    /\ pc' = "slots"
    /\ UNCHANGED <<g_mcps_found, g_mcp_output_start, g_mcp_output_pins, probe>>

\* mutant: an idle pump probes address 0 again
PumpIdleRescanning ==
    /\ pc = "pump"
    /\ g_mcps_found' = scanI2CBus(0, g_mcps_found, {0})
    /\ trace' = <<>>
    /\ pc' = "slots"
    /\ UNCHANGED <<g_mcp_output_start, g_mcp_output_pins, pendingEvents, probe>>

\* loop(): oxrs.loop() has no message to deliver
PumpIdle ==
    /\ pc = "pump"
    /\ trace' = <<>>
    /\ pc' = "slots"
    /\ UNCHANGED <<g_mcps_found, g_mcp_output_start, g_mcp_output_pins,
                   pendingEvents, probe>>

\* loop(): the pass over the eight slots
LoopSlots(ev, ok) ==
    /\ pc = "slots"
    /\ trace' = loopFrom(0, g_mcps_found, g_mcp_output_start, g_mcp_output_pins,
                         pendingEvents, ev, ok)
    /\ pendingEvents' = loopPending(g_mcps_found, g_mcp_output_start, pendingEvents)
    /\ (ev = NoEvent /\ pendingEvents' = pendingEvents => ok)
    /\ pc' = "pump"
    /\ UNCHANGED <<g_mcps_found, g_mcp_output_start, g_mcp_output_pins, probe>>

\* reset or power cycle: the globals get their initial values again
Restart ==
    /\ pc = "pump"
    /\ g_mcps_found' = 0
    /\ g_mcp_output_start' = MCP_COUNT
    /\ g_mcp_output_pins' = MCP_PIN_COUNT
    /\ pc' = "boot"
    /\ pendingEvents' = {}
    /\ trace' = <<>>
    /\ UNCHANGED probe

Next ==
    \/ \E acks \in PresenceValues, json \in ConfigMessages : Setup(acks, json)
    \/ \E json \in ConfigMessages : PumpConfig(json)
    \/ \E json \in CommandMessages :
          \E env \in CommandEnvs(json, g_mcps_found, g_mcp_output_start,
                                 g_mcp_output_pins) : PumpCommand(json, env)
    \/ PumpIdle
    \/ \E ev \in InputEvents(g_mcps_found, g_mcp_output_start), ok \in BOOLEAN :
          LoopSlots(ev, ok)
    \/ Restart

Spec == Init /\ [][Next]_vars

-----------------------------------------------------------------------------
(* The addressing functions on their own: every presence bitmap, every     *)
(* supported partition boundary, both pin counts; each action applies the  *)
(* functions to one input and keeps the result in probe.                   *)

InitAddr ==
    /\ g_mcps_found \in 0 .. 255
    /\ g_mcp_output_start \in PartitionValues
    /\ g_mcp_output_pins \in {8, MCP_PIN_COUNT}
    /\ pc = "addr"
    /\ pendingEvents = {}
    /\ trace = <<>>
    /\ probe = NoProbe

Applied(p) ==
    /\ pc = "addr"
    /\ probe = NoProbe
    /\ probe' = p
    /\ UNCHANGED <<g_mcps_found, g_mcp_output_start, g_mcp_output_pins, pc,
                   pendingEvents, trace>>

\* getInputIndex and getOutputIndex on an entry with index i; for an index
\* they accept, the (mcp, pin) jsonOutputCommand / jsonInputConfig work out
\* and the index outputEvent / inputEvent publish for that (mcp, pin)
ProbeIndex(i) ==
    LET inIdx == getInputIndex([index |-> JInt(i)], g_mcps_found, g_mcp_output_start)
        outIdx == getOutputIndex([index |-> JInt(i)], g_mcps_found,
                                 g_mcp_output_start, g_mcp_output_pins)
        oMcp == outpIndex2Mcp(outIdx, g_mcp_output_start, g_mcp_output_pins)
        oPin == outpIndex2Pin(outIdx, g_mcp_output_start, g_mcp_output_pins)
        iMcp == inpIndex2Mcp(inIdx)
        iPin == inpIndex2Pin(inIdx)
    IN  Applied([fn |-> "index", a |-> i, b |-> 0,
                 res |-> <<inIdx, outIdx>>
                         \o (IF outIdx # 0
                             THEN <<oMcp, oPin,
                                    outputEventIndex(oMcp, oPin, g_mcp_output_start,
                                                     g_mcp_output_pins)>>
                             ELSE <<0, 0, 0>>)
                         \o (IF inIdx # 0
                             THEN <<iMcp, iPin, inputEventIndex(iMcp, iPin)>>
                             ELSE <<0, 0, 0>>)])

\* outputEvent's index for (mcp, pin), mapped back as jsonOutputCommand does
ProbeOutputEvent(mcp, pin) ==
    LET index == outputEventIndex(mcp, pin, g_mcp_output_start, g_mcp_output_pins)
    IN  Applied([fn |-> "outputEvent", a |-> mcp, b |-> pin,
                 res |-> <<index,
                           outpIndex2Mcp(index, g_mcp_output_start, g_mcp_output_pins),
                           outpIndex2Pin(index, g_mcp_output_start, g_mcp_output_pins)>>])

\* inputEvent's index for (mcp, pin), mapped back as jsonInputConfig does
ProbeInputEvent(mcp, pin) ==
    LET index == inputEventIndex(mcp, pin)
    IN  Applied([fn |-> "inputEvent", a |-> mcp, b |-> pin,
                 res |-> <<index, inpIndex2Mcp(index), inpIndex2Pin(index)>>])

\* the four bounds
ProbeBounds ==
    Applied([fn |-> "bounds", a |-> 0, b |-> 0,
             res |-> <<getMinInputIndex,
                       getMaxInputIndex(g_mcps_found, g_mcp_output_start),
                       getMinOutputIndex(g_mcp_output_start),
                       getMaxOutputIndex(g_mcps_found, g_mcp_output_start,
                                         g_mcp_output_pins)>>])

NextAddr ==
    \/ \E i \in 0 .. 255 : ProbeIndex(i)
    \/ ProbeBounds

SpecAddr == InitAddr /\ [][NextAddr]_vars

(* The event index functions do not read the presence bitmap *)

InitEvent ==
    /\ g_mcps_found \in {scanI2CBus(0, 0, acks) : acks \in PresenceValues}
    /\ g_mcp_output_start \in PartitionValues
    /\ g_mcp_output_pins \in {8, MCP_PIN_COUNT}
    /\ pc = "addr"
    /\ pendingEvents = {}
    /\ trace = <<>>
    /\ probe = NoProbe

NextEvent ==
    \/ \E mcp \in Slots, pin \in Pins : ProbeOutputEvent(mcp, pin)
    \/ \E mcp \in Slots, pin \in Pins : ProbeInputEvent(mcp, pin)

SpecEvent == InitEvent /\ [][NextEvent]_vars

(* The entry handlers on their own: one entry of an array, applied under  *)
(* every partition setting; probe.res keeps the entry, the collaborators'  *)
(* answers and the effects.                                                *)

OutputConfigProbes ==
    {[index |-> ix, type |-> ty, timerSeconds |-> ts, interlockIndex |-> il] :
        ix \in {Absent, JInt(1), JInt(65), JInt(81), JInt(130)},
        ty \in {Absent, JStr("timer"), JStr("blind")},
        ts \in {Absent, JNull, JInt(0), JInt(30)},
        il \in {Absent, JNull, JInt(2), JInt(60), JInt(66), JInt(81)}}

InputConfigProbes ==
    {[index |-> ix, type |-> ty, invert |-> inv, disabled |-> dis] :
        ix \in {Absent, JInt(0), JInt(1), JInt(64), JInt(65)},
        ty \in {Absent, JStr("button"), JStr("knob")},
        inv \in {Absent, JBool(TRUE), JBool(FALSE)},
        dis \in {Absent, JBool(TRUE), JBool(FALSE)}}

CommandProbes ==
    {[index |-> ix, type |-> ty, command |-> c] :
        ix \in {Absent, JInt(1), JInt(65), JInt(81), JInt(130)},
        ty \in {Absent, JStr("relay"), JStr("timer"), JStr("blind")},
        c \in CommandValues}

\* what the collaborators can answer during one command entry
ProbeEnvs ==
    [type : {"RELAY", "TIMER"}, level : {"RELAY_ON", "RELAY_OFF"},
     mode : {"now", "later", "none"}, ok : BOOLEAN]

ProbeOutputConfig(json) ==
    Applied([fn |-> "jsonOutputConfig", a |-> 0, b |-> 0,
             res |-> <<json, jsonOutputConfig(json, g_mcps_found, g_mcp_output_start,
                                              g_mcp_output_pins)>>])

ProbeInputConfig(json) ==
    Applied([fn |-> "jsonInputConfig", a |-> 0, b |-> 0,
             res |-> <<json, jsonInputConfig(json, g_mcps_found, g_mcp_output_start)>>])

ProbeOutputCommand(json, env) ==
    LET r == jsonOutputCommand(json, g_mcps_found, g_mcp_output_start,
                               g_mcp_output_pins, env, {})
    IN  Applied([fn |-> "jsonOutputCommand", a |-> Cardinality(r.pend), b |-> 0,
                 res |-> <<json, r.fx, env>>])

NextEntry ==
    \/ probe = NoProbe /\ \E json \in OutputConfigProbes : ProbeOutputConfig(json)
    \/ probe = NoProbe /\ \E json \in InputConfigProbes : ProbeInputConfig(json)
    \/ probe = NoProbe /\ \E json \in CommandProbes, env \in ProbeEnvs :
                              ProbeOutputCommand(json, env)

SpecEntry == InitEvent /\ [][NextEntry]_vars

(* The array loops on their own: messages of up to MaxBatch entries, some  *)
(* of them refused                                                          *)

MaxBatch == 2

BatchInputEntries ==
    {[index |-> JInt(1), type |-> JStr("button"), invert |-> JBool(TRUE),
      disabled |-> Absent],
     [index |-> JInt(2), type |-> JStr("knob"), invert |-> Absent,
      disabled |-> JBool(TRUE)],
     [index |-> JInt(1), type |-> JStr("knob"), invert |-> Absent, disabled |-> Absent],
     [index |-> Absent, type |-> JStr("button"), invert |-> Absent, disabled |-> Absent],
     [index |-> JInt(0), type |-> JStr("button"), invert |-> Absent, disabled |-> Absent]}

BatchOutputEntries ==
    {[index |-> JInt(65), type |-> JStr("timer"), timerSeconds |-> JInt(30),
      interlockIndex |-> Absent],
     [index |-> JInt(66), type |-> Absent, timerSeconds |-> JNull,
      interlockIndex |-> JNull],
     [index |-> JInt(65), type |-> JStr("blind"), timerSeconds |-> Absent,
      interlockIndex |-> Absent],
     [index |-> JInt(65), type |-> Absent, timerSeconds |-> Absent,
      interlockIndex |-> JInt(81)],
     [index |-> Absent, type |-> JStr("timer"), timerSeconds |-> Absent,
      interlockIndex |-> Absent],
     [index |-> JInt(130), type |-> JStr("timer"), timerSeconds |-> Absent,
      interlockIndex |-> Absent]}

BatchCommandEntries ==
    {[index |-> JInt(65), type |-> Absent, command |-> JStr("on")],
     [index |-> JInt(66), type |-> Absent, command |-> JStr("off")],
     [index |-> JInt(65), type |-> Absent, command |-> JStr("query")],
     [index |-> JInt(65), type |-> JStr("blind"), command |-> JStr("on")],
     [index |-> JInt(65), type |-> Absent, command |-> JStr("toggle")],
     [index |-> Absent, type |-> Absent, command |-> JStr("on")],
     [index |-> JInt(130), type |-> Absent, command |-> JStr("on")]}

ProbeConfigBatch(json) ==
    Applied([fn |-> "jsonConfig", a |-> 0, b |-> 0,
             res |-> <<json, jsonConfig(json, g_mcps_found, g_mcp_output_start,
                                        g_mcp_output_pins).tr>>])

ProbeCommandBatch(json, env) ==
    LET r == jsonCommand(json, g_mcps_found, g_mcp_output_start, g_mcp_output_pins,
                         env, {})
    IN  Applied([fn |-> "jsonCommand", a |-> Cardinality(r.pend), b |-> 0,
                 res |-> <<json, r.tr, env>>])

NextBatch ==
    \/ probe = NoProbe
       /\ \E es \in SeqsUpTo(BatchInputEntries, MaxBatch) \ {<<>>} :
             ProbeConfigBatch([EmptyConfig EXCEPT !.inputs = es])
    \/ probe = NoProbe
       /\ \E es \in SeqsUpTo(BatchOutputEntries, MaxBatch) \ {<<>>} :
             ProbeConfigBatch([EmptyConfig EXCEPT !.outputs = es])
    \/ probe = NoProbe
       /\ \E es \in SeqsUpTo(BatchCommandEntries, MaxBatch) \ {<<>>}, env \in ProbeEnvs :
             ProbeCommandBatch([outputs |-> es], env)

SpecBatch == InitEvent /\ [][NextBatch]_vars

(* The event publishers and the two callbacks on their own; probe.b is 1   *)
(* when oxrs.publishStatus reports the record as delivered.                 *)

ProbePublishOutputEvent(index, type, state, ok) ==
    Applied([fn |-> "publishOutputEvent", a |-> index, b |-> IF ok THEN 1 ELSE 0,
             res |-> <<type, state, publishOutputEvent(index, type, state, ok)>>])

ProbePublishInputEvent(index, type, state, ok) ==
    Applied([fn |-> "publishInputEvent", a |-> index, b |-> IF ok THEN 1 ELSE 0,
             res |-> <<type, state, publishInputEvent(index, type, state, ok)>>])

ProbeOutputCallback(mcp, pin, type, state, ok) ==
    Applied([fn |-> "outputEventCallback", a |-> mcp * MCP_PIN_COUNT + pin,
             b |-> IF ok THEN 1 ELSE 0,
             res |-> <<type, state,
                       outputEvent(mcp, pin, type, state, g_mcp_output_start,
                                   g_mcp_output_pins, ok)>>])

ProbeInputCallback(mcp, pin, type, state, ok) ==
    Applied([fn |-> "inputEventCallback", a |-> mcp * MCP_PIN_COUNT + pin,
             b |-> IF ok THEN 1 ELSE 0,
             res |-> <<type, state, inputEvent(mcp, pin, type, state, ok)>>])

NextPublish ==
    \/ probe = NoProbe
       /\ \E index \in {1, 65, 128}, type \in {"RELAY", "MOTOR", "TIMER"},
             state \in {"RELAY_ON", "RELAY_OFF"}, ok \in BOOLEAN :
             ProbePublishOutputEvent(index, type, state, ok)
    \/ probe = NoProbe
       /\ \E index \in {1, 64, 128}, type \in {"SWITCH", "BUTTON", "SECURITY"},
             state \in {"LOW_EVENT", "HIGH_EVENT", "HOLD_EVENT"}, ok \in BOOLEAN :
             ProbePublishInputEvent(index, type, state, ok)
    \/ probe = NoProbe
       /\ \E mcp \in Slots, pin \in {0, MCP_PIN_COUNT - 1}, type \in {"RELAY", "TIMER"},
             state \in {"RELAY_ON", "RELAY_OFF"}, ok \in BOOLEAN :
             ProbeOutputCallback(mcp, pin, type, state, ok)
    \/ probe = NoProbe
       /\ \E mcp \in Slots, pin \in {0, MCP_PIN_COUNT - 1}, type \in {"SWITCH", "BUTTON"},
             state \in {"LOW_EVENT", "HOLD_EVENT"}, ok \in BOOLEAN :
             ProbeInputCallback(mcp, pin, type, state, ok)

SpecPublish == InitEvent /\ [][NextPublish]_vars

(* jsonConfig on messages that hold any combination of the six keys; the   *)
(* message's partition settings take effect as in the firmware.            *)

OrderMessages ==
    {[ioConfig |-> io, outputsPerMcp |-> n, defaultInputType |-> dit,
      inputs |-> ins, defaultOutputType |-> dot, outputs |-> outs] :
        io \in {Absent, JStr("io_64_64")},
        n \in {Absent, JInt(8)},
        dit \in {Absent, JStr("button"), JStr("knob")},
        ins \in {<<>>} \cup
                {<<[index |-> JInt(1), type |-> JStr(ty), invert |-> Absent,
                    disabled |-> Absent]>> : ty \in {"contact", "knob"}},
        dot \in {Absent, JStr("timer")},
        outs \in {<<>>} \cup
                 {<<[index |-> JInt(ix), type |-> JStr("motor"),
                     timerSeconds |-> Absent, interlockIndex |-> Absent]>> :
                    ix \in {65, 81}}}

ProbeConfigOrder(json) ==
    /\ pc = "addr"
    /\ probe = NoProbe
    /\ LET c == jsonConfig(json, g_mcps_found, g_mcp_output_start, g_mcp_output_pins)
       IN  /\ g_mcp_output_start' = c.start
           /\ g_mcp_output_pins' = c.pins
           /\ probe' = [fn |-> "jsonConfig", a |-> 0, b |-> 0, res |-> <<json, c.tr>>]
    /\ UNCHANGED <<g_mcps_found, pc, pendingEvents, trace>>

NextOrder == \E json \in OrderMessages : ProbeConfigOrder(json)

SpecOrder == InitEvent /\ [][NextOrder]_vars

(* The firmware with a record of what setup() did: probe keeps the         *)
(* boundary and pin count setup() worked with, the pin directions it set   *)
(* and the schemas it handed over.                                         *)

SettingsMessages ==
    {[EmptyConfig EXCEPT !.ioConfig = io, !.outputsPerMcp = n] :
        io \in {Absent, JStr("io_64_64"), JStr("io_0_128")},
        n \in {Absent, JInt(8)}}

BootCommands ==
    {[outputs |-> <<[index |-> JInt(ix), type |-> Absent, command |-> JStr("on")]>>] :
        ix \in {1, 65}}

BootSetup(acks, json) ==
    /\ pc = "boot"
    /\ LET found == scanI2CBus(0, g_mcps_found, acks)
           c == jsonConfig(json, found, g_mcp_output_start, g_mcp_output_pins)
       IN  /\ g_mcps_found' = found
           /\ g_mcp_output_start' = c.start
           /\ g_mcp_output_pins' = c.pins
           /\ trace' = <<Step("scanI2CBus", JInt(found), scanI2CBusFx)>>
                       \o c.tr
                       \o <<Step("configureI2CBus", Absent,
                                 configureI2CBus(found, c.start)),
                            Step("setConfigSchema", Absent,
                                 setConfigSchema(found, c.start, c.pins)),
                            Step("setCommandSchema", Absent,
                                 setCommandSchema(found, c.start, c.pins))>>
           /\ probe' = [fn |-> "setup", a |-> c.start, b |-> c.pins,
                        res |-> <<configureI2CBus(found, c.start),
                                  setConfigSchema(found, c.start, c.pins),
                                  setCommandSchema(found, c.start, c.pins)>>]
    /\ pc' = "pump"
    /\ UNCHANGED pendingEvents

NextBoot ==
    \/ \E acks \in PresenceValues, json \in SettingsMessages : BootSetup(acks, json)
    \/ \E json \in SettingsMessages : PumpConfig(json)
    \/ \E json \in BootCommands :
          \E env \in CommandEnvs(json, g_mcps_found, g_mcp_output_start,
                                 g_mcp_output_pins) : PumpCommand(json, env)
    \/ PumpIdle
    \/ \E ev \in InputEvents(g_mcps_found, g_mcp_output_start), ok \in BOOLEAN :
          LoopSlots(ev, ok)
    \/ Restart

SpecBoot == Init /\ [][NextBoot]_vars

-----------------------------------------------------------------------------
(* Properties *)

\* what the addressing functions answer for the current globals
AddressingView ==
    [minOutput |-> getMinOutputIndex(g_mcp_output_start),
     maxOutput |-> getMaxOutputIndex(g_mcps_found, g_mcp_output_start,
                                     g_mcp_output_pins),
     maxInput |-> getMaxInputIndex(g_mcps_found, g_mcp_output_start),
     isInput |-> [m \in Slots |-> isInputMcp(m, g_mcp_output_start)],
     slotPin |-> [i \in 1 .. 255 |->
                    <<outpIndex2Mcp(i, g_mcp_output_start, g_mcp_output_pins),
                      outpIndex2Pin(i, g_mcp_output_start, g_mcp_output_pins)>>]]

\* C1: within one boot session (no step from or to boot) a handled message
\* leaves the answers of getMinOutputIndex, getMaxOutputIndex,
\* getMaxInputIndex, isInputMcp/isOutputMcp and the index-to-(slot, pin)
\* mapping as they were before it
C1_RuntimeConfigIsOnlyStored ==
    [][(pc # "boot" /\ pc' # "boot") => AddressingView' = AddressingView]_vars

\* C2: for every supported boundary, pin count 8 or 16 and presence bitmap,
\* no index is accepted both by getInputIndex and by getOutputIndex
C2_IndexRangesDisjoint ==
    probe.fn = "index" => ~(probe.res[1] # 0 /\ probe.res[2] # 0)

\* the step of a refused entry: its index is missing or outside the range
RefusedInput(st) ==
    /\ st.what = "inputs"
    /\ \/ st.key.k # "int"
       \/ st.key.i < getMinInputIndex
       \/ st.key.i > getMaxInputIndex(g_mcps_found, g_mcp_output_start)

RefusedOutput(st) ==
    /\ st.what = "outputs"
    /\ \/ st.key.k # "int"
       \/ st.key.i < getMinOutputIndex(g_mcp_output_start)
       \/ st.key.i > getMaxOutputIndex(g_mcps_found, g_mcp_output_start,
                                       g_mcp_output_pins)

\* C3: an input config entry, output config entry or output command entry
\* whose index is missing or outside the current range does nothing but
\* log: no handler call, no GPIO access, no publish
C3_RefusedEntryOnlyLogs ==
    \A k \in DOMAIN trace :
        /\ RefusedInput(trace[k]) =>
              trace[k].fx = getInputIndexLog([index |-> trace[k].key])
        /\ RefusedOutput(trace[k]) =>
              trace[k].fx = getOutputIndexLog([index |-> trace[k].key])

\* C3 witness: a command for index 130 with outputs 65..128 is refused, and a
\* command without index too
C3_Witness ==
    /\ pc = "slots"
    /\ g_mcp_output_start = 4
    /\ g_mcps_found = 255
    /\ g_mcp_output_pins = MCP_PIN_COUNT
    /\ trace = <<Step("outputs", JInt(130),
                      <<Println("[stio] invalid output index")>>)>>

\* C4: for boundaries 0, 2, 4, 6, both pin counts, every output slot s and
\* pin p below the pin count, outputEvent's index for (s, p) is mapped back
\* to (s, p) by outpIndex2Mcp / outpIndex2Pin
C4_OutputRoundTrip ==
    (/\ probe.fn = "outputEvent"
     /\ g_mcp_output_start \in {0, 2, 4, 6}
     /\ probe.a \in g_mcp_output_start .. 7
     /\ probe.b \in 0 .. (g_mcp_output_pins - 1))
    => (probe.res[2] = probe.a /\ probe.res[3] = probe.b)

\* C4 witness: boundary 4, 8 pins, slot 5 pin 7 is index 80 and maps back
C4_Witness ==
    /\ probe.fn = "outputEvent"
    /\ g_mcp_output_start = 4
    /\ g_mcp_output_pins = 8
    /\ probe.a = 5
    /\ probe.b = 7
    /\ probe.res = <<80, 5, 7>>

\* C5: for every input slot s below the boundary and pin p in 0..15,
\* inputEvent's index is s*16 + p + 1 and (index-1) div 16, (index-1) mod 16
\* give back (s, p)
C5_InputRoundTrip ==
    (/\ probe.fn = "inputEvent"
     /\ probe.a \in 0 .. (g_mcp_output_start - 1)
     /\ probe.b \in 0 .. 15)
    => probe.res = <<probe.a * 16 + probe.b + 1, probe.a, probe.b>>

\* C5 witness: boundary 4, slot 3 pin 15 is index 64 and maps back
C5_Witness ==
    /\ probe.fn = "inputEvent"
    /\ g_mcp_output_start = 4
    /\ probe.a = 3
    /\ probe.b = 15
    /\ probe.res = <<64, 3, 15>>

PresentOutputs == {s \in g_mcp_output_start .. 7 : bitRead(g_mcps_found, s) = 1}

PresentInputs == {s \in 0 .. (g_mcp_output_start - 1) : bitRead(g_mcps_found, s) = 1}

Highest(S) == CHOOSE s \in S : \A t \in S : t <= s

\* C7: getMinOutputIndex is boundary*16 + 1; getMaxOutputIndex is
\* (h + 1 - boundary) * pins + min - 1 for the highest present output slot h
\* and min when no output slot is present; 65..128 for boundary 4, 16 pins,
\* all present; 65..80 for boundary 4, 8 pins, output slots 4 and 5 only
C7_MaxOutputIndex ==
    probe.fn = "bounds" =>
        /\ probe.res[3] = g_mcp_output_start * 16 + 1
        /\ probe.res[4] =
              IF PresentOutputs = {} THEN probe.res[3]
              ELSE (Highest(PresentOutputs) + 1 - g_mcp_output_start)
                   * g_mcp_output_pins + probe.res[3] - 1
        /\ (g_mcp_output_start = 4 /\ g_mcp_output_pins = 16 /\ g_mcps_found = 255)
              => (probe.res[3] = 65 /\ probe.res[4] = 128)
        /\ (g_mcp_output_start = 4 /\ g_mcp_output_pins = 8
            /\ PresentOutputs = {4, 5})
              => (probe.res[3] = 65 /\ probe.res[4] = 80)

\* C7 witness: boundary 4, 8 pins, slots 0, 4 and 5 present gives 65..80
C7_Witness ==
    /\ probe.fn = "bounds"
    /\ g_mcp_output_start = 4
    /\ g_mcp_output_pins = 8
    /\ g_mcps_found = 49
    /\ probe.res[3] = 65
    /\ probe.res[4] = 80

\* C8: getMaxInputIndex is (h + 1) * 16 for the highest present input slot h,
\* whatever the pin count and the output slots, and getMinInputIndex = 1
\* when no input slot is present; 64 for boundary 4 with all slots present
C8_MaxInputIndex ==
    probe.fn = "bounds" =>
        /\ probe.res[1] = 1
        /\ probe.res[2] =
              IF PresentInputs = {} THEN probe.res[1]
              ELSE (Highest(PresentInputs) + 1) * 16
        /\ (g_mcp_output_start = 4 /\ g_mcps_found = 255) => probe.res[2] = 64

\* C8 witness: boundary 4, all eight slots present gives 64
C8_Witness ==
    /\ probe.fn = "bounds"
    /\ g_mcp_output_start = 4
    /\ g_mcps_found = 255
    /\ probe.res[2] = 64

\* C9: getMinInputIndex <= getMaxInputIndex exactly when an input slot is
\* present
C9_InputRangeEmptyWithoutInputs ==
    probe.fn = "bounds" =>
        ((probe.res[1] <= probe.res[2]) <=> (PresentInputs # {}))

HasOp(fx, op) == \E k \in DOMAIN fx : fx[k].op = op

CountOp(fx, op) == Cardinality({k \in DOMAIN fx : fx[k].op = op})

\* the output range in closed form, and the slot and pin of an index in it
OutputAccepted(v) ==
    /\ v.k = "int"
    /\ v.i >= g_mcp_output_start * 16 + 1
    /\ v.i <= (IF PresentOutputs = {} THEN g_mcp_output_start * 16 + 1
               ELSE (Highest(PresentOutputs) + 1 - g_mcp_output_start)
                    * g_mcp_output_pins + g_mcp_output_start * 16)

SlotOf(i) ==
    U8(CDiv(i - (g_mcp_output_start * 16 + 1), g_mcp_output_pins) + g_mcp_output_start)

PinOf(i) == U8(CMod(i - (g_mcp_output_start * 16 + 1), g_mcp_output_pins))

\* C11: an output config entry with an accepted index whose non-null
\* interlockIndex resolves to another slot than the entry's index logs the
\* same-mcp warning and makes no setInterlock call
C11_CrossSlotInterlockRejected ==
    (/\ probe.fn = "jsonOutputConfig"
     /\ OutputAccepted(probe.res[1].index)
     /\ probe.res[1].interlockIndex.k = "int"
     /\ SlotOf(probe.res[1].interlockIndex.i) # SlotOf(probe.res[1].index.i))
    => /\ ~HasOp(probe.res[2], "oxrsOutput.setInterlock")
       /\ probe.res[2][Len(probe.res[2])]
             = Println("[stio] lock must be with pin on same mcp")

\* C11 witness: boundary 4, 16 pins: index 65 is slot 4, interlockIndex 81
\* is slot 5, and the entry only logs
C11_Witness ==
    /\ probe.fn = "jsonOutputConfig"
    /\ g_mcp_output_start = 4
    /\ g_mcp_output_pins = 16
    /\ g_mcps_found = 255
    /\ probe.res = <<[index |-> JInt(65), type |-> Absent, timerSeconds |-> Absent,
                      interlockIndex |-> JInt(81)],
                     <<Println("[stio] lock must be with pin on same mcp")>> >>

\* the calls that change an output, its handler or the event stream
OutputMutators ==
    {"oxrsOutput.handleCommand", "outputEvent", "mcp23017.digitalWrite",
     "oxrs.publishStatus", "Serial.failover", "oxrsOutput.setType",
     "oxrsOutput.setTimer", "oxrsOutput.setInterlock"}

\* the type name of a command entry names the configured type
TypeMatches(name, type) ==
    \/ name = "relay" /\ type = "RELAY"
    \/ name = "motor" /\ type = "MOTOR"
    \/ name = "timer" /\ type = "TIMER"

\* C12: a command entry with an accepted index whose type is not the pin's
\* configured type (or names no output type) is refused whatever its
\* command: no handleCommand, no GPIO write, no publish, no setter call, no
\* event left pending; the mismatch is logged
C12_TypeMismatchRejected ==
    (/\ probe.fn = "jsonOutputCommand"
     /\ OutputAccepted(probe.res[1].index)
     /\ probe.res[1].type.k = "str"
     /\ ~TypeMatches(probe.res[1].type.s, probe.res[3].type))
    => /\ \A k \in DOMAIN probe.res[2] : probe.res[2][k].op \notin OutputMutators
       /\ probe.a = 0
       /\ probe.res[2][Len(probe.res[2])]
             = Println("[stio] command type doesn't match configured type")

\* C12 witness: an "on" command of type timer for index 65, a relay, whose
\* handler would raise the event at once
C12_Witness ==
    /\ probe.fn = "jsonOutputCommand"
    /\ g_mcp_output_start = 4
    /\ g_mcp_output_pins = 16
    /\ g_mcps_found = 255
    /\ probe.res[1] = [index |-> JInt(65), type |-> JStr("timer"),
                       command |-> JStr("on")]
    /\ probe.res[3].mode = "now"
    /\ probe.res[2] = <<Fx("oxrsOutput.getType", 4, 0, 0, "RELAY", ""),
                        Println("[stio] command type doesn't match configured type")>>

\* C13: an output config entry with an accepted index whose timerSeconds is
\* a number below 1 makes no setTimer call, so the pin's timer stays as it
\* was
C13_TimerBelowOneRejected ==
    (/\ probe.fn = "jsonOutputConfig"
     /\ OutputAccepted(probe.res[1].index)
     /\ probe.res[1].timerSeconds.k = "int"
     /\ probe.res[1].timerSeconds.i < 1)
    => ~HasOp(probe.res[2], "oxrsOutput.setTimer")

\* C14: an output config entry with an accepted index and timerSeconds null
\* makes exactly one setTimer call: for the addressed slot and pin, with
\* DEFAULT_TIMER_SECS
C14_NullTimerResetsToDefault ==
    (/\ probe.fn = "jsonOutputConfig"
     /\ OutputAccepted(probe.res[1].index)
     /\ probe.res[1].timerSeconds.k = "null")
    => /\ CountOp(probe.res[2], "oxrsOutput.setTimer") = 1
       /\ \A k \in DOMAIN probe.res[2] :
             probe.res[2][k].op = "oxrsOutput.setTimer" =>
                probe.res[2][k] = Fx("oxrsOutput.setTimer",
                                     SlotOf(probe.res[1].index.i),
                                     PinOf(probe.res[1].index.i),
                                     DEFAULT_TIMER_SECS, "", "")

\* C14 witness: boundary 4, 8 pins: index 81 is slot 6 pin 0, whose timer is
\* set to 60
C14_Witness ==
    /\ probe.fn = "jsonOutputConfig"
    /\ g_mcp_output_start = 4
    /\ g_mcp_output_pins = 8
    /\ g_mcps_found = 255
    /\ probe.res = <<[index |-> JInt(81), type |-> Absent, timerSeconds |-> JNull,
                      interlockIndex |-> Absent],
                     <<Fx("oxrsOutput.setTimer", 6, 0, 60, "", "")>> >>

\* the boundary an ioConfig string stands for; -1 for any other string
IoConfigTable(str) ==
    CASE str = "io_128_0" -> 8
      [] str = "io_96_32" -> 6
      [] str = "io_64_64" -> 4
      [] str = "io_32_96" -> 2
      [] str = "io_0_128" -> 0
      [] OTHER -> 0 - 1

\* C15: the boundary is always one of 0, 2, 4, 6, 8 and is 8 at boot; a
\* message whose ioConfig is one of the five strings sets it to the table
\* value without a log; any other ioConfig string is logged and leaves the
\* boundary as it was
C15_BoundaryFromTable ==
    /\ [](g_mcp_output_start \in {0, 2, 4, 6, 8})
    /\ [](pc = "boot" => g_mcp_output_start = 8)
    /\ [][\A k \in DOMAIN trace' :
            trace'[k].what = "ioConfig" =>
                IF IoConfigTable(trace'[k].key.s) >= 0
                THEN /\ g_mcp_output_start' = IoConfigTable(trace'[k].key.s)
                     /\ trace'[k].fx = <<>>
                ELSE /\ g_mcp_output_start' = g_mcp_output_start
                     /\ trace'[k].fx = <<Println("[stio] invalid ioConfig enum")>>]_vars

\* C15 witness: with the boundary at 4, a run-time ioConfig "io_16_16" is
\* logged and the boundary is still 4
C15_Witness ==
    /\ pc = "slots"
    /\ g_mcp_output_start = 4
    /\ trace = <<Step("ioConfig", JStr("io_16_16"),
                      <<Println("[stio] invalid ioConfig enum")>>)>>

\* C16: after any sequence of config messages, whatever their outputsPerMcp,
\* g_mcp_output_pins is 8 or 16
C16_OutputPinsEightOrSixteen == g_mcp_output_pins \in {8, 16}

RemoveAt(seq, k) == SubSeq(seq, 1, k - 1) \o SubSeq(seq, k + 1, Len(seq))

\* the array a batch message carries
BatchArray(fn, json) ==
    IF fn = "jsonCommand" THEN json.outputs
    ELSE IF json.inputs # <<>> THEN json.inputs ELSE json.outputs

\* the steps of the batch message without its k-th entry
BatchWithout(k) ==
    IF probe.fn = "jsonCommand"
    THEN jsonCommand([outputs |-> RemoveAt(probe.res[1].outputs, k)], g_mcps_found,
                     g_mcp_output_start, g_mcp_output_pins, probe.res[3], {}).tr
    ELSE jsonConfig([probe.res[1] EXCEPT
                        !.inputs = IF probe.res[1].inputs # <<>>
                                   THEN RemoveAt(probe.res[1].inputs, k) ELSE <<>>,
                        !.outputs = IF probe.res[1].inputs # <<>>
                                    THEN <<>> ELSE RemoveAt(probe.res[1].outputs, k)],
                    g_mcps_found, g_mcp_output_start, g_mcp_output_pins).tr

\* an entry that was refused: it logged, and called nothing that changes an
\* input, an output or the event stream
RejectedStep(st) ==
    /\ HasOp(st.fx, "oxrs.println")
    /\ \A q \in DOMAIN st.fx :
          st.fx[q].op \notin (OutputMutators \cup {"oxrsInput.setType",
                                 "oxrsInput.setInvert", "oxrsInput.setDisabled"})

\* C17: every entry of the inputs/outputs array of a config message and of
\* the outputs array of a command message is handled exactly once, in array
\* order, and the entries around a refused entry are handled as they are in
\* the message without the refused entry
C17_BatchEntriesIndependent ==
    probe.fn \in {"jsonConfig", "jsonCommand"} =>
        /\ Len(probe.res[2]) = Len(BatchArray(probe.fn, probe.res[1]))
        /\ \A k \in DOMAIN probe.res[2] :
              /\ probe.res[2][k].key = BatchArray(probe.fn, probe.res[1])[k].index
              /\ RejectedStep(probe.res[2][k]) =>
                    RemoveAt(probe.res[2], k) = BatchWithout(k)

\* C17 witness: a command message whose first entry has an index above the
\* range and whose second entry switches index 65 on: the first is logged,
\* the second reaches handleCommand
C17_Witness ==
    /\ probe.fn = "jsonCommand"
    /\ g_mcp_output_start = 4
    /\ g_mcp_output_pins = 16
    /\ g_mcps_found = 255
    /\ probe.res[1].outputs
          = <<[index |-> JInt(130), type |-> Absent, command |-> JStr("on")],
              [index |-> JInt(65), type |-> Absent, command |-> JStr("on")]>>
    /\ probe.res[2][1].fx = <<Println("[stio] invalid output index")>>
    /\ HasOp(probe.res[2][2].fx, "oxrsOutput.handleCommand")

\* the input range in closed form
InputAccepted(v) ==
    /\ v.k = "int"
    /\ v.i >= 1
    /\ v.i <= (IF PresentInputs = {} THEN 1 ELSE (Highest(PresentInputs) + 1) * 16)

InputTypeNames ==
    {"button", "contact", "press", "rotary", "security", "switch", "toggle"}

\* C18: an input config entry with an accepted index whose type names no
\* input type logs it and makes no setType call, and its invert and disabled
\* fields are still applied to the slot and pin of the index
C18_InvalidInputTypePerField ==
    (/\ probe.fn = "jsonInputConfig"
     /\ InputAccepted(probe.res[1].index)
     /\ probe.res[1].type.k = "str"
     /\ probe.res[1].type.s \notin InputTypeNames)
    => LET json == probe.res[1]
           mcp == (json.index.i - 1) \div 16
           pin == (json.index.i - 1) % 16
       IN  probe.res[2]
             = <<Println("[stio] invalid input type")>>
               \o (IF json.invert.k = "bool"
                   THEN <<Fx("oxrsInput.setInvert", mcp, pin, json.invert.i, "", "")>>
                   ELSE <<>>)
               \o (IF json.disabled.k = "bool"
                   THEN <<Fx("oxrsInput.setDisabled", mcp, pin, json.disabled.i, "", "")>>
                   ELSE <<>>)

\* C18 witness: index 64 (slot 3 pin 15) with type "knob", invert true and
\* disabled false
C18_Witness ==
    /\ probe.fn = "jsonInputConfig"
    /\ g_mcp_output_start = 4
    /\ g_mcps_found = 255
    /\ probe.res = <<[index |-> JInt(64), type |-> JStr("knob"),
                      invert |-> JBool(TRUE), disabled |-> JBool(FALSE)],
                     <<Println("[stio] invalid input type"),
                       Fx("oxrsInput.setInvert", 3, 15, 1, "", ""),
                       Fx("oxrsInput.setDisabled", 3, 15, 0, "", "")>> >>

C20_OneAttemptThenFallback ==
    probe.fn \in {"publishOutputEvent", "publishInputEvent",
                  "outputEventCallback", "inputEventCallback"} =>
        LET fx == probe.res[3]
            n == Len(fx)
        IN  /\ CountOp(fx, "oxrs.publishStatus") = 1
            /\ IF probe.b = 1
               THEN /\ CountOp(fx, "Serial.failover") = 0
                    /\ fx[n].op = "oxrs.publishStatus"
               ELSE /\ CountOp(fx, "Serial.failover") = 1
                    /\ fx[n].op = "Serial.failover"
                    /\ fx[n - 1] = [fx[n] EXCEPT !.op = "oxrs.publishStatus"]

\* C20 witness: the output callback for slot 4 pin 0 with the transport
\* refusing the record: one attempt, one fallback line
C20_Witness ==
    /\ probe.fn = "outputEventCallback"
    /\ g_mcp_output_start = 4
    /\ g_mcp_output_pins = 16
    /\ probe.a = 64
    /\ probe.b = 0
    /\ probe.res = <<"RELAY", "RELAY_ON",
                     <<Fx("outputEvent", 4, 0, 0, "RELAY", "RELAY_ON"),
                       Fx("mcp23017.digitalWrite", 4, 0, 0, "", "RELAY_ON"),
                       Fx("oxrs.publishStatus", 0, 0, 65, "relay", "on"),
                       Fx("Serial.failover", 0, 0, 65, "relay", "on")>> >>

\* the effects of the step of the last handler run that is named what
StepFx(what) ==
    LET ks == {k \in DOMAIN trace : trace[k].what = what}
    IN  IF ks = {} THEN <<>> ELSE trace[CHOOSE k \in ks : TRUE].fx

\* C21: the config schema setup() hands over holds defaultInputType and
\* inputs exactly when the boundary is not 0, defaultOutputType and outputs
\* exactly when it is not 8, and ioConfig and outputsPerMcp always; the
\* command schema holds outputs exactly when the boundary is not 8
C21_SchemaSectionsFollowBoundary ==
    (\E k \in DOMAIN trace : trace[k].what = "setConfigSchema") =>
        LET cfg == StepFx("setConfigSchema")
            cmd == StepFx("setCommandSchema")
        IN  /\ HasOp(cfg, "schema.ioConfig") /\ HasOp(cfg, "schema.outputsPerMcp")
            /\ HasOp(cfg, "schema.defaultInputType") <=> g_mcp_output_start # 0
            /\ HasOp(cfg, "schema.inputs") <=> g_mcp_output_start # 0
            /\ HasOp(cfg, "schema.defaultOutputType") <=> g_mcp_output_start # 8
            /\ HasOp(cfg, "schema.outputs") <=> g_mcp_output_start # 8
            /\ HasOp(cmd, "schema.command.outputs") <=> g_mcp_output_start # 8
            /\ cfg[Len(cfg)].op = "oxrs.setConfigSchema"
            /\ cmd[Len(cmd)].op = "oxrs.setCommandSchema"

\* C21 witness: booted with the persisted ioConfig io_0_128: no input
\* section, output sections in both schemas
C21_Witness ==
    /\ pc = "pump"
    /\ g_mcp_output_start = 0
    /\ HasOp(StepFx("setConfigSchema"), "schema.outputs")
    /\ ~HasOp(StepFx("setConfigSchema"), "schema.inputs")
    /\ HasOp(StepFx("setCommandSchema"), "schema.command.outputs")

\* C22: between the end of setup() and the next reset no step (config
\* message, command message, event callback, loop pass) changes
\* g_mcps_found
C22_InventoryFixedAfterBoot ==
    [][(pc # "boot" /\ pc' # "boot") => g_mcps_found' = g_mcps_found]_vars

\* C22 witness: slots 4 and 6 were found at boot and are the two slots a
\* later loop pass visits
C22_Witness ==
    /\ pc = "pump"
    /\ g_mcps_found = 80
    /\ Len(trace) = 2
    /\ trace[1].what = "slot" /\ trace[1].key = JInt(4)
    /\ trace[2].what = "slot" /\ trace[2].key = JInt(6)

\* the place of a step in the order of the keys
KeyRank(what) ==
    CASE what = "ioConfig" -> 1
      [] what = "outputsPerMcp" -> 2
      [] what = "defaultInputType" -> 3
      [] what = "inputs" -> 4
      [] what = "defaultOutputType" -> 5
      [] what = "outputs" -> 6
      [] OTHER -> 0

\* the type the last setType call of op for (mcp, pin) sets; "" when none
LastSetType(fx, op, mcp, pin) ==
    LET ks == {k \in DOMAIN fx : fx[k].op = op /\ fx[k].mcp = mcp /\ fx[k].pin = pin}
    IN  IF ks = {} THEN ""
        ELSE fx[CHOOSE k \in ks : \A q \in ks : q <= k].s

\* C23: the steps of one config message come in the order ioConfig,
\* outputsPerMcp, defaultInputType, inputs, defaultOutputType, outputs, one
\* step per key or array entry the message holds; so with a default type
\* and an entry with a valid type for an accepted pin of a present slot, the
\* last setType call for that pin carries the entry's type
C23_ConfigKeysInFixedOrder ==
    probe.fn = "jsonConfig" =>
        LET json == probe.res[1]
            tr == probe.res[2]
            fx == AllFx(tr)
        IN  /\ \A i, j \in DOMAIN tr :
                  i < j => KeyRank(tr[i].what) <= KeyRank(tr[j].what)
            /\ [k \in DOMAIN tr |-> tr[k].what]
                  = (IF json.ioConfig.k = "absent" THEN <<>> ELSE <<"ioConfig">>)
                    \o (IF json.outputsPerMcp.k = "absent" THEN <<>>
                        ELSE <<"outputsPerMcp">>)
                    \o (IF json.defaultInputType.k = "absent" THEN <<>>
                        ELSE <<"defaultInputType">>)
                    \o [k \in DOMAIN json.inputs |-> "inputs"]
                    \o (IF json.defaultOutputType.k = "absent" THEN <<>>
                        ELSE <<"defaultOutputType">>)
                    \o [k \in DOMAIN json.outputs |-> "outputs"]
            /\ \A k \in DOMAIN json.inputs :
                  (/\ json.defaultInputType.k = "str"
                   /\ InputAccepted(json.inputs[k].index)
                   /\ json.inputs[k].type.s = "contact"
                   /\ bitRead(g_mcps_found, (json.inputs[k].index.i - 1) \div 16) = 1)
                  => LastSetType(fx, "oxrsInput.setType",
                                 (json.inputs[k].index.i - 1) \div 16,
                                 (json.inputs[k].index.i - 1) % 16) = "CONTACT"
            /\ \A k \in DOMAIN json.outputs :
                  (/\ json.defaultOutputType.k = "str"
                   /\ OutputAccepted(json.outputs[k].index)
                   /\ json.outputs[k].type.s = "motor"
                   /\ bitRead(g_mcps_found, SlotOf(json.outputs[k].index.i)) = 1)
                  => LastSetType(fx, "oxrsOutput.setType",
                                 SlotOf(json.outputs[k].index.i),
                                 PinOf(json.outputs[k].index.i)) = "MOTOR"

\* C23 witness: a message with all six keys, defaults button and timer,
\* entries contact for index 1 and motor for index 81 (slot 6 pin 0 under
\* the message's own io_64_64 and 8 pins)
C23_Witness ==
    /\ probe.fn = "jsonConfig"
    /\ g_mcps_found = 255
    /\ g_mcp_output_start = 4
    /\ g_mcp_output_pins = 8
    /\ [k \in DOMAIN probe.res[2] |-> probe.res[2][k].what]
          = <<"ioConfig", "outputsPerMcp", "defaultInputType", "inputs",
              "defaultOutputType", "outputs">>
    /\ probe.res[2][3].key = JStr("button")
    /\ probe.res[2][4].fx = <<Fx("oxrsInput.setType", 0, 0, 0, "CONTACT", "")>>
    /\ probe.res[2][6].fx = <<Fx("oxrsOutput.setType", 6, 0, 0, "MOTOR", "")>>
    /\ LastSetType(AllFx(probe.res[2]), "oxrsOutput.setType", 6, 0) = "MOTOR"

\* C24: the callback outputEvent writes the event's state to (slot, pin)
\* exactly once, before its one publish attempt, whether that attempt
\* succeeds or not
C24_WriteBeforePublish ==
    probe.fn = "outputEventCallback" =>
        LET fx == probe.res[3]
            writes == {k \in DOMAIN fx : fx[k].op = "mcp23017.digitalWrite"}
            attempts == {k \in DOMAIN fx : fx[k].op = "oxrs.publishStatus"}
        IN  /\ Cardinality(writes) = 1
            /\ Cardinality(attempts) = 1
            /\ \A w \in writes :
                  /\ fx[w].mcp = probe.a \div MCP_PIN_COUNT
                  /\ fx[w].pin = probe.a % MCP_PIN_COUNT
                  /\ fx[w].e = probe.res[2]
                  /\ \A p \in attempts : w < p

\* C24 witness: slot 7 pin 15 of a 96/32 layout switched off and published
\* as index 128
C24_Witness ==
    /\ probe.fn = "outputEventCallback"
    /\ g_mcp_output_start = 6
    /\ g_mcp_output_pins = 16
    /\ probe.a = 127
    /\ probe.b = 1
    /\ probe.res = <<"TIMER", "RELAY_OFF",
                     <<Fx("outputEvent", 7, 15, 0, "TIMER", "RELAY_OFF"),
                       Fx("mcp23017.digitalWrite", 7, 15, 0, "", "RELAY_OFF"),
                       Fx("oxrs.publishStatus", 0, 0, 128, "timer", "off")>> >>

\* the state a loop pass leaves: pc is back at the pump and the steps are
\* not those of setup()
AfterLoopPass ==
    /\ pc = "pump"
    /\ \A k \in DOMAIN trace : trace[k].what = "slot"
    /\ trace # <<>> \/ g_mcps_found = 0

\* C25: a pass over the slots comes only after the transport was pumped; it
\* visits the present slots in ascending order, each once, and no absent
\* slot; an output slot gets process() of its output handler first, then
\* one register read, and no input handler call; an input slot gets one
\* register read, then process() of its input handler, and no output handler
\* call
C25_LoopPassShape ==
    /\ [][(pc' = "slots" => pc = "pump") /\ (pc = "slots" => pc' = "pump")]_vars
    /\ [](AfterLoopPass =>
            /\ Len(trace) = Cardinality({m \in Slots : bitRead(g_mcps_found, m) = 1})
            /\ \A k \in DOMAIN trace :
                  LET m == trace[k].key.i
                      fx == trace[k].fx
                  IN  /\ m \in Slots /\ bitRead(g_mcps_found, m) = 1
                      /\ k > 1 => trace[k - 1].key.i < m
                      /\ \A q \in DOMAIN fx : fx[q].mcp = m \/ fx[q].op \in
                                   {"oxrs.publishStatus", "Serial.failover"}
                      /\ CountOp(fx, "mcp23017.readGPIOAB") = 1
                      /\ IF m >= g_mcp_output_start
                         THEN /\ fx[1].op = "oxrsOutput.process"
                              /\ CountOp(fx, "oxrsOutput.process") = 1
                              /\ fx[Len(fx)].op = "mcp23017.readGPIOAB"
                              /\ ~HasOp(fx, "oxrsInput.process")
                              /\ ~HasOp(fx, "inputEvent")
                         ELSE /\ fx[1].op = "mcp23017.readGPIOAB"
                              /\ fx[2].op = "oxrsInput.process"
                              /\ CountOp(fx, "oxrsInput.process") = 1
                              /\ ~HasOp(fx, "oxrsOutput.process")
                              /\ ~HasOp(fx, "outputEvent"))

\* C25 witness: all eight slots present, boundary 4: eight steps, slot 0 is
\* read and then classified, slot 4 is processed and then read
C25_Witness ==
    /\ AfterLoopPass
    /\ g_mcps_found = 255
    /\ g_mcp_output_start = 4
    /\ Len(trace) = 8
    /\ trace[1].fx = <<Fx("mcp23017.readGPIOAB", 0, 0, 0, "", ""),
                       Fx("oxrsInput.process", 0, 0, 0, "", "")>>
    /\ trace[5].fx = <<Fx("oxrsOutput.process", 4, 0, 0, "", ""),
                       Fx("mcp23017.readGPIOAB", 4, 0, 0, "", "")>>

\* C26: for every boundary and presence bitmap, an index getOutputIndex
\* accepts resolves to a slot from the boundary to 7 and an index
\* getInputIndex accepts resolves to a slot below the boundary
C26_AcceptedIndexInsideDomain ==
    probe.fn = "index" =>
        /\ probe.res[2] # 0 => probe.res[3] \in g_mcp_output_start .. (MCP_COUNT - 1)
        /\ probe.res[1] # 0 => probe.res[6] \in 0 .. (g_mcp_output_start - 1)

\* C27: every setInterlock call an output config entry makes names a target
\* pin from 0 to the pin count - 1
C27_InterlockTargetInRange ==
    probe.fn = "jsonOutputConfig" =>
        \A k \in DOMAIN probe.res[2] :
            probe.res[2][k].op = "oxrsOutput.setInterlock" =>
                probe.res[2][k].n \in 0 .. (g_mcp_output_pins - 1)

\* the direction setup() gave the pins of slot m; "" for a slot it left alone
BootPinMode(m) ==
    LET ks == {k \in DOMAIN probe.res[1] :
                  probe.res[1][k].op = "mcp23017.pinMode" /\ probe.res[1][k].mcp = m}
    IN  IF ks = {} THEN "" ELSE probe.res[1][CHOOSE k \in ks : TRUE].s

\* C28: in every state after setup(), each present slot that isOutputMcp
\* takes for an output slot had its pins set to OUTPUT by configureI2CBus
\* and each present slot taken for an input slot had them set to input; and
\* outputEvent writes no pin of a present slot that was set to input
C28_RoleMatchesPinDirection ==
    (pc # "boot" /\ probe.fn = "setup") =>
        /\ \A m \in Slots :
              bitRead(g_mcps_found, m) = 1 =>
                 BootPinMode(m) = (IF isOutputMcp(m, g_mcp_output_start)
                                   THEN "OUTPUT" ELSE "INPUT_PULLUP")
        /\ \A k \in DOMAIN AllFx(trace) :
              (/\ AllFx(trace)[k].op = "mcp23017.digitalWrite"
               /\ AllFx(trace)[k].mcp \in Slots
               /\ bitRead(g_mcps_found, AllFx(trace)[k].mcp) = 1)
              => BootPinMode(AllFx(trace)[k].mcp) = "OUTPUT"

\* the value setup() put into the schema under the given effect name; -1 when
\* the schema handed over has no such entry
BootSchemaBound(part, name) ==
    LET fx == probe.res[part]
        ks == {k \in DOMAIN fx : fx[k].op = name}
    IN  IF ks = {} THEN -1 ELSE fx[CHOOSE k \in ks : TRUE].n

\* C29: in every state after setup(), the index bounds setup() put into the
\* input config schema equal getMinInputIndex and getMaxInputIndex, and the
\* index and interlockIndex bounds it put into the output config schema and
\* the command schema equal getMinOutputIndex and getMaxOutputIndex, as
\* getInputIndex and getOutputIndex compute them in that state
C29_SchemaBoundsMatchValidation ==
    (pc # "boot" /\ probe.fn = "setup") =>
        LET minIn == getMinInputIndex
            maxIn == getMaxInputIndex(g_mcps_found, g_mcp_output_start)
            minOut == getMinOutputIndex(g_mcp_output_start)
            maxOut == getMaxOutputIndex(g_mcps_found, g_mcp_output_start,
                                        g_mcp_output_pins)
        IN  /\ HasOp(probe.res[2], "schema.inputs") =>
                  /\ BootSchemaBound(2, "schema.inputs.index.minimum") = minIn
                  /\ BootSchemaBound(2, "schema.inputs.index.maximum") = maxIn
            /\ HasOp(probe.res[2], "schema.outputs") =>
                  /\ BootSchemaBound(2, "schema.outputs.index.minimum") = minOut
                  /\ BootSchemaBound(2, "schema.outputs.index.maximum") = maxOut
                  /\ BootSchemaBound(2, "schema.outputs.interlockIndex.minimum") = minOut
                  /\ BootSchemaBound(2, "schema.outputs.interlockIndex.maximum") = maxOut
            /\ HasOp(probe.res[3], "schema.command.outputs") =>
                  /\ BootSchemaBound(3, "schema.command.index.minimum") = minOut
                  /\ BootSchemaBound(3, "schema.command.index.maximum") = maxOut

\* C30: in every state after setup(), getMinOutputIndex, getMaxOutputIndex,
\* getMaxInputIndex and the index inputEvent and outputEvent compute for each
\* pin of each present slot, all 8-bit results, equal the same formulas over
\* unbounded integers and lie in 1..255
C30_NoWraparound ==
    pc # "boot" =>
        LET start == g_mcp_output_start
            pins == g_mcp_output_pins
            minOut == start * MCP_PIN_COUNT + 1
            maxOut == IF PresentOutputs = {} THEN minOut
                      ELSE (Highest(PresentOutputs) + 1 - start) * pins + minOut - 1
            maxIn == IF PresentInputs = {} THEN 1
                     ELSE (Highest(PresentInputs) + 1) * MCP_PIN_COUNT
        IN  /\ getMinOutputIndex(start) = minOut
            /\ getMaxOutputIndex(g_mcps_found, start, pins) = maxOut
            /\ getMaxInputIndex(g_mcps_found, start) = maxIn
            /\ {minOut, maxOut, maxIn} \subseteq 1 .. 255
            /\ \A m \in PresentInputs, p \in 0 .. (MCP_PIN_COUNT - 1) :
                  inputEventIndex(m, p) = MCP_PIN_COUNT * m + p + 1
            /\ \A m \in PresentOutputs, p \in 0 .. (pins - 1) :
                  outputEventIndex(m, p, start, pins)
                     = (m - start) * pins + minOut + p

====
